---- MODULE Spec2Model ----
(***************************************************************************)
(* State-machine model of the simulation engine of src/src/App.jsx (the    *)
(* CSPPyrolysisSimulation component): the interval tick, the RESET and     *)
(* START/STOP buttons and the three configuration selectors.               *)
(*                                                                         *)
(* Numbers.  The engine computes in IEEE doubles; the model computes in    *)
(* exact fixed point, each quantity in the unit that makes every update    *)
(* of the code an integer operation:                                       *)
(*   reactorTemp            1/10000 degree C   (RT)                        *)
(*   saltHotTemp            1/3000  degree C   (ST)                        *)
(*   thermal power          kW                                             *)
(*   energyCollected        1/60000 MWh  (kW * simulated minutes)          *)
(*   heatLoss               1/(9*10^8) MWh, held as a two-limb number      *)
(*   plastic                1/3 kg                                         *)
(*   hydrogen               1/1250 kg                                      *)
(*   carbon, wax, waste     1/300 kg                                       *)
(*   cleaning_needed        1/10 heliostat                                 *)
(*   windSpeed              1/1000 m/s                                     *)
(*   cloudCover             percent                                        *)
(*   currentDate            days since 31 Dec 2025 (15 = 15 Jan 2026)      *)
(* Math.sin is replaced by Bhaskara's rational approximation (error below  *)
(* 0.2 percent of full scale); no claim checked here depends on the exact  *)
(* value of a sine, only on its sign and on the thresholds it feeds.       *)
(***************************************************************************)
EXTENDS Integers, Sequences, FiniteSets, TLC

\* ------------------------------------------------------------ catalogs

Riyadh == "Riyadh, Saudi Arabia"
Seville == "Seville, Spain"
Atacama == "Atacama, Chile"

\* dni in 1/10 kWh/m2/day, |lat| in 1/10 degree
SOLAR_DATA ==
  [loc \in {Riyadh, "Phoenix, USA", Seville, "Dubai, UAE", "Las Vegas, USA",
            "Alice Springs, Australia", "Almeria, Spain", "Cairo, Egypt",
            Atacama, "Ouarzazate, Morocco", "Tucson, USA", "Jodhpur, India"} |->
     CASE loc = Riyadh                     -> [dni |-> 68, lat |-> 247]
       [] loc = "Phoenix, USA"             -> [dni |-> 72, lat |-> 334]
       [] loc = Seville                    -> [dni |-> 59, lat |-> 374]
       [] loc = "Dubai, UAE"               -> [dni |-> 65, lat |-> 253]
       [] loc = "Las Vegas, USA"           -> [dni |-> 75, lat |-> 362]
       [] loc = "Alice Springs, Australia" -> [dni |-> 73, lat |-> -237]
       [] loc = "Almeria, Spain"           -> [dni |-> 64, lat |-> 368]
       [] loc = "Cairo, Egypt"             -> [dni |-> 62, lat |-> 300]
       [] loc = Atacama                    -> [dni |-> 85, lat |-> -236]
       [] loc = "Ouarzazate, Morocco"      -> [dni |-> 67, lat |-> 309]
       [] loc = "Tucson, USA"              -> [dni |-> 70, lat |-> 322]
       [] loc = "Jodhpur, India"           -> [dni |-> 63, lat |-> 263]]

\* h2_yield in mmol/g, the three mass fractions in percent, optimal_temp in degree C
PLASTIC_TYPES ==
  [p \in {"HDPE", "LDPE", "PP", "PS", "Mixed"} |->
     CASE p = "HDPE"  -> [h2_yield |-> 168, carbon_yield |-> 25, oil_yield |-> 15,
                          gas_yield |-> 10, optimal_temp |-> 850]
       [] p = "LDPE"  -> [h2_yield |-> 175, carbon_yield |-> 22, oil_yield |-> 18,
                          gas_yield |-> 12, optimal_temp |-> 850]
       [] p = "PP"    -> [h2_yield |-> 165, carbon_yield |-> 26, oil_yield |-> 16,
                          gas_yield |-> 11, optimal_temp |-> 850]
       [] p = "PS"    -> [h2_yield |-> 95, carbon_yield |-> 48, oil_yield |-> 20,
                          gas_yield |-> 8, optimal_temp |-> 900]
       [] p = "Mixed" -> [h2_yield |-> 150, carbon_yield |-> 30, oil_yield |-> 17,
                          gas_yield |-> 10, optimal_temp |-> 850]]

RealTime == "Real-time (1 day = 24 hours)"
Fast == "Fast (1 day = 2 hours)"
VeryFast == "Very Fast (1 day = 30 min)"
UltraFast == "Ultra Fast (1 day = 20 min)"
Extreme == "Extreme (1 day = 10 min)"

SPEED_OPTIONS ==
  [s \in {RealTime, Fast, VeryFast, UltraFast, Extreme} |->
     CASE s = RealTime  -> 1
       [] s = Fast      -> 12
       [] s = VeryFast  -> 48
       [] s = UltraFast -> 72
       [] s = Extreme   -> 144]

HELIOSTAT_AREA == 115
HELIOSTAT_EFFICIENCY == 68
RECEIVER_EFFICIENCY == 88
SALT_TEMP_HOT == 565
SALT_TEMP_COLD == 290
PYROLYSIS_ENERGY == 450
HELIOSTAT_COUNT == 2127
REACTOR_CAPACITY == 500

\* fixed-point scales
RT == 10000
ST == 3000
LimbBase == 1000000000

\* ------------------------------------------------------------ arithmetic

Min(a, b) == IF a <= b THEN a ELSE b
Max(a, b) == IF a >= b THEN a ELSE b
Abs(a) == IF a < 0 THEN 0 - a ELSE a

\* a + n for a two-limb natural a = hi * LimbBase + lo and 0 <= n < LimbBase
BigAdd(a, n) ==
  IF a.lo + n >= LimbBase
    THEN [hi |-> a.hi + 1, lo |-> a.lo + n - LimbBase]
    ELSE [hi |-> a.hi, lo |-> a.lo + n]

BigZero == [hi |-> 0, lo |-> 0]
BigLeq(a, b) == a.hi < b.hi \/ (a.hi = b.hi /\ a.lo <= b.lo)
BigLess(a, b) == a.hi < b.hi \/ (a.hi = b.hi /\ a.lo < b.lo)

\* 1000 * sin(pi * num / den) for 0 <= num <= den (Bhaskara I)
SinPiMilli(num, den) ==
  LET p == num * (den - num)
      q == den * den
  IN  (1600 * p) \div ((5 * q - 4 * p) \div 10)

\* 1000 * Math.sin((dayOfYear - 81) / 365 * 2 * Math.PI)
SeasonSinMilli(dayOfYear) ==
  LET x == 2 * Abs(dayOfYear - 81)
      s == IF x <= 365 THEN SinPiMilli(x, 365) ELSE 0 - SinPiMilli(x - 365, 365)
  IN  IF dayOfYear >= 81 THEN s ELSE 0 - s

\* ------------------------------------------------------------ solar model

\* locationData?.lat || 0 (magnitude, 1/10 degree) and locationData?.dni || 6.0
LocationLat(location) ==
  IF location \in DOMAIN SOLAR_DATA THEN Abs(SOLAR_DATA[location].lat) ELSE 0

LocationDni(location) ==
  IF location \in DOMAIN SOLAR_DATA /\ SOLAR_DATA[location].dni # 0
    THEN SOLAR_DATA[location].dni ELSE 60

DaysInYear(y) == IF y % 4 = 0 THEN 366 ELSE 365

RECURSIVE DayOfYearFrom(_, _)
DayOfYearFrom(d, y) ==
  IF d <= DaysInYear(y) THEN d ELSE DayOfYearFrom(d - DaysInYear(y), y + 1)

\* Math.floor((currentDate - new Date(currentDate.getFullYear(), 0, 0)) / 86400000)
DayOfYear(date) == DayOfYearFrom(date, 2026)

\* sunrise and sunset in 1/10000 minute of the day:
\* 6 -/+ 1.5 * sin(season) * |lat| / 90 hours = 360 -/+ sin(season) * |lat| minutes
Sunrise(dayOfYear, location) ==
  3600000 - SeasonSinMilli(dayOfYear) * LocationLat(location)

Sunset(dayOfYear, location) ==
  10800000 + SeasonSinMilli(dayOfYear) * LocationLat(location)

\* mutant: the cloud factor grows with the cloud cover
calculateSunParameters_CloudsBrighten(hour, minute, dayOfYear, location, cloud) ==
  LET hourDecimal == (hour * 60 + minute) * 10000
      sunrise == Sunrise(dayOfYear, location)
      sunset == Sunset(dayOfYear, location)
      dayLength == (sunset - sunrise) \div 10000
      sinceRise == (hourDecimal - sunrise) \div 10000
      timeOfDayFactor == SinPiMilli(Min(sinceRise, dayLength), dayLength)
      latitudeCorrection == 1000 - LocationLat(location) \div 3
      elevation == (timeOfDayFactor * 70 * latitudeCorrection) \div 1000
      baseDNI == LocationDni(location) * 1750
      seasonalFactor == 1000 + (3 * SeasonSinMilli(dayOfYear)) \div 10
      cloudFactor == 300 + 7 * cloud
      dni == (((((baseDNI * timeOfDayFactor) \div 1000) * seasonalFactor) \div 1000)
                * cloudFactor) \div 1000
  IN  IF hourDecimal < sunrise \/ hourDecimal > sunset
        THEN [elevation |-> 0, dni |-> 0, isDaytime |-> FALSE]
        ELSE [elevation |-> elevation, dni |-> Max(0, dni), isDaytime |-> TRUE]

\* mutant: the instants of sunrise and sunset count as night
calculateSunParameters_BoundaryIsNight(hour, minute, dayOfYear, location, cloud) ==
  LET hourDecimal == (hour * 60 + minute) * 10000
      sunrise == Sunrise(dayOfYear, location)
      sunset == Sunset(dayOfYear, location)
      dayLength == (sunset - sunrise) \div 10000
      sinceRise == (hourDecimal - sunrise) \div 10000
      timeOfDayFactor == SinPiMilli(Min(sinceRise, dayLength), dayLength)
      latitudeCorrection == 1000 - LocationLat(location) \div 3
      elevation == (timeOfDayFactor * 70 * latitudeCorrection) \div 1000
      baseDNI == LocationDni(location) * 1750
      seasonalFactor == 1000 + (3 * SeasonSinMilli(dayOfYear)) \div 10
      cloudFactor == 1000 - 7 * cloud
      dni == (((((baseDNI * timeOfDayFactor) \div 1000) * seasonalFactor) \div 1000)
                * cloudFactor) \div 1000
  IN  IF hourDecimal <= sunrise \/ hourDecimal >= sunset
        THEN [elevation |-> 0, dni |-> 0, isDaytime |-> FALSE]
        ELSE [elevation |-> elevation, dni |-> Max(0, dni), isDaytime |-> TRUE]

\* elevation in 1/1000 degree, dni in 1/100 W/m2
calculateSunParameters(hour, minute, dayOfYear, location, cloud) ==
  LET hourDecimal == (hour * 60 + minute) * 10000
      sunrise == Sunrise(dayOfYear, location)
      sunset == Sunset(dayOfYear, location)
      dayLength == (sunset - sunrise) \div 10000
      sinceRise == (hourDecimal - sunrise) \div 10000
      timeOfDayFactor == SinPiMilli(Min(sinceRise, dayLength), dayLength)
      latitudeCorrection == 1000 - LocationLat(location) \div 3
      elevation == (timeOfDayFactor * 70 * latitudeCorrection) \div 1000
      baseDNI == LocationDni(location) * 1750
      seasonalFactor == 1000 + (3 * SeasonSinMilli(dayOfYear)) \div 10
      cloudFactor == 1000 - 7 * cloud
      dni == (((((baseDNI * timeOfDayFactor) \div 1000) * seasonalFactor) \div 1000)
                * cloudFactor) \div 1000
  IN  IF hourDecimal < sunrise \/ hourDecimal > sunset
        THEN [elevation |-> 0, dni |-> 0, isDaytime |-> FALSE]
        ELSE [elevation |-> elevation, dni |-> Max(0, dni), isDaytime |-> TRUE]

\* mutant: at least one heliostat is counted as active
calculateThermalPower_OneAlwaysActive(dni, operational, wind) ==
  LET windEffect == IF wind > 10000 THEN 95 ELSE 100
      totalArea == Max(operational, 1) * HELIOSTAT_AREA
      opticalPower == (((((totalArea * (dni \div 100)) \div 1000)
                          * HELIOSTAT_EFFICIENCY) \div 100) * windEffect) \div 100
  IN  (opticalPower * RECEIVER_EFFICIENCY) \div 100

\* thermal power in kW from dni in 1/100 W/m2 (wind in 1/1000 m/s)
calculateThermalPower(dni, operational, wind) ==
  LET windEffect == IF wind > 10000 THEN 95 ELSE 100
      totalArea == operational * HELIOSTAT_AREA
      opticalPower == (((((totalArea * (dni \div 100)) \div 1000)
                          * HELIOSTAT_EFFICIENCY) \div 100) * windEffect) \div 100
  IN  (opticalPower * RECEIVER_EFFICIENCY) \div 100

\* ------------------------------------------------------------ pyrolysis

\* mutant: hydrogen is weighed with the molar mass of H (1.008) instead of H2
processPyrolysis_AtomicHydrogen(thermalPower, m, plastic) ==
  LET maxPlasticRate == (thermalPower * 3600) \div PYROLYSIS_ENERGY
      actualRate == Min(maxPlasticRate, REACTOR_CAPACITY)
      plasticProcessed == (actualRate * 60 * m * 3) \div 3600
      data == PLASTIC_TYPES[plastic]
  IN  [plastic  |-> plasticProcessed,
       hydrogen |-> (plasticProcessed * data.h2_yield * 21) \div 50,
       carbon   |-> plasticProcessed * data.carbon_yield,
       wax      |-> plasticProcessed * data.oil_yield,
       waste    |-> plasticProcessed * data.gas_yield,
       rate     |-> actualRate]

\* mutant: the rate is capped at half the reactor capacity
processPyrolysis_HalfCapacity(thermalPower, m, plastic) ==
  LET maxPlasticRate == (thermalPower * 3600) \div PYROLYSIS_ENERGY
      actualRate == Min(maxPlasticRate, REACTOR_CAPACITY \div 2)
      plasticProcessed == (actualRate * 60 * m * 3) \div 3600
      data == PLASTIC_TYPES[plastic]
  IN  [plastic  |-> plasticProcessed,
       hydrogen |-> (plasticProcessed * data.h2_yield * 21) \div 25,
       carbon   |-> plasticProcessed * data.carbon_yield,
       wax      |-> plasticProcessed * data.oil_yield,
       waste    |-> plasticProcessed * data.gas_yield,
       rate     |-> actualRate]

\* products of one producing tick at multiplier m (deltaTime = 60 * m seconds):
\* maxPlasticRate = kW / (450 / 3600) kg/h, capped at the reactor capacity;
\* plastic in 1/3 kg, carbon, wax and waste in 1/300 kg, hydrogen in 1/1250 kg:
\* kg * 1000 * h2_yield * 2.016 / 1e6 = (plastic / 3) * h2_yield * 2.52 / 1250
processPyrolysis(thermalPower, m, plastic) ==
  LET maxPlasticRate == (thermalPower * 3600) \div PYROLYSIS_ENERGY
      actualRate == Min(maxPlasticRate, REACTOR_CAPACITY)
      plasticProcessed == (actualRate * 60 * m * 3) \div 3600
      data == PLASTIC_TYPES[plastic]
  IN  [plastic  |-> plasticProcessed,
       hydrogen |-> (plasticProcessed * data.h2_yield * 21) \div 25,
       carbon   |-> plasticProcessed * data.carbon_yield,
       wax      |-> plasticProcessed * data.oil_yield,
       waste    |-> plasticProcessed * data.gas_yield,
       rate     |-> actualRate]

\* ------------------------------------------------------------ state

VARIABLES
  selectedLocation, selectedPlastic, selectedSpeed, currentDate,
  time, isRunning, currentHour, currentMinute,
  cloudCover, windSpeed, heliostats,
  reactorTemp, saltHotTemp, saltColdTemp, pyrolysisActive,
  production, dailyStats,
  effectLocation,   \* the location captured by the closure of the live interval
  last,             \* what the last step was and what its tick computed
  nsteps            \* steps taken since the initial state (exploration depth)

vars ==
  <<selectedLocation, selectedPlastic, selectedSpeed, currentDate,
    time, isRunning, currentHour, currentMinute,
    cloudCover, windSpeed, heliostats,
    reactorTemp, saltHotTemp, saltColdTemp, pyrolysisActive,
    production, dailyStats, effectLocation, last, nsteps>>

\* the component state as one record
St ==
  [selectedLocation |-> selectedLocation, selectedPlastic |-> selectedPlastic,
   selectedSpeed |-> selectedSpeed, currentDate |-> currentDate,
   time |-> time, isRunning |-> isRunning,
   currentHour |-> currentHour, currentMinute |-> currentMinute,
   cloudCover |-> cloudCover, windSpeed |-> windSpeed, heliostats |-> heliostats,
   reactorTemp |-> reactorTemp, saltHotTemp |-> saltHotTemp,
   saltColdTemp |-> saltColdTemp, pyrolysisActive |-> pyrolysisActive,
   production |-> production, dailyStats |-> dailyStats,
   effectLocation |-> effectLocation]

ZeroProduction ==
  [hydrogen |-> 0, carbon |-> 0, wax |-> 0, waste |-> 0, totalPlasticProcessed |-> 0]

ZeroDailyStats ==
  [energyCollected |-> 0, plasticProcessed |-> 0, hydrogenProduced |-> 0,
   carbonProduced |-> 0, heatLoss |-> BigZero]

\* the useState initial values
InitialState ==
  [selectedLocation |-> Riyadh, selectedPlastic |-> "HDPE",
   selectedSpeed |-> UltraFast, currentDate |-> 15,
   time |-> 0, isRunning |-> FALSE,
   currentHour |-> 6, currentMinute |-> 0,
   cloudCover |-> 0, windSpeed |-> 0,
   heliostats |-> [operational |-> HELIOSTAT_COUNT, maintenance |-> 0,
                   cleaning_needed |-> 0, faulty |-> 0],
   reactorTemp |-> 290 * RT, saltHotTemp |-> 420 * ST,
   saltColdTemp |-> 290, pyrolysisActive |-> FALSE,
   production |-> ZeroProduction, dailyStats |-> ZeroDailyStats,
   effectLocation |-> Riyadh]

\* ------------------------------------------------------------ the tick

\* SPEED_OPTIONS[selectedSpeed] || 72
speedMultiplier(s) ==
  IF s.selectedSpeed \in DOMAIN SPEED_OPTIONS /\ SPEED_OPTIONS[s.selectedSpeed] # 0
    THEN SPEED_OPTIONS[s.selectedSpeed] ELSE 72

\* mutant: the hour is not reduced modulo 24 at the rollover
AdvanceClock_NoHourWrap(s) ==
  LET newMinute == s.currentMinute + speedMultiplier(s)
      carried == newMinute >= 60
      hour == IF carried THEN s.currentHour + newMinute \div 60 ELSE s.currentHour
  IN  [newHour |-> hour,
       finalMinute |-> IF carried THEN newMinute % 60 ELSE newMinute,
       rollover |-> hour >= 24]

\* mutant: a minute overflow carries one hour, however many hours it spans
AdvanceClock_SingleCarry(s) ==
  LET newMinute == s.currentMinute + speedMultiplier(s)
      carried == newMinute >= 60
      hour == IF carried THEN s.currentHour + 1 ELSE s.currentHour
      rollover == hour >= 24
  IN  [newHour |-> IF rollover THEN hour % 24 ELSE hour,
       finalMinute |-> IF carried THEN newMinute % 60 ELSE newMinute,
       rollover |-> rollover]

\* the clock after the tick: minute carry, hour carry, day rollover
AdvanceClock(s) ==
  LET newMinute == s.currentMinute + speedMultiplier(s)
      carried == newMinute >= 60
      hour == IF carried THEN s.currentHour + newMinute \div 60 ELSE s.currentHour
      rollover == hour >= 24
  IN  [newHour |-> IF rollover THEN hour % 24 ELSE hour,
       finalMinute |-> IF carried THEN newMinute % 60 ELSE newMinute,
       rollover |-> rollover]

\* mutant: clouds form without the cap at 100 percent
updateWeather_NoCloudCap(s, rnd) ==
  [cloudCover |->
     IF rnd.cloudRoll THEN s.cloudCover + rnd.cloudAmount
     ELSE IF s.cloudCover > 0 THEN Max(0, s.cloudCover - rnd.cloudAmount)
     ELSE s.cloudCover,
   windSpeed |->
     IF rnd.gustRoll THEN rnd.gustSpeed
     ELSE Max(0, (s.windSpeed * 9) \div 10)]

\* rnd.cloudRoll: Math.random() < 0.05; rnd.cloudAmount: Math.random() * 30 resp.
\* Math.random() * 15; rnd.gustRoll: Math.random() < 0.1; rnd.gustSpeed: Math.random() * 15
updateWeather(s, rnd) ==
  [cloudCover |->
     IF rnd.cloudRoll THEN Min(100, s.cloudCover + rnd.cloudAmount)
     ELSE IF s.cloudCover > 0 THEN Max(0, s.cloudCover - rnd.cloudAmount)
     ELSE s.cloudCover,
   windSpeed |->
     IF rnd.gustRoll THEN rnd.gustSpeed
     ELSE Max(0, (s.windSpeed * 9) \div 10)]

\* the sun parameters the tick computes: new clock, but the date, the location and
\* the cloud cover its closure captured
TickSun(s) ==
  LET c == AdvanceClock(s)
  IN  calculateSunParameters(c.newHour, c.finalMinute, DayOfYear(s.currentDate),
                             s.effectLocation, s.cloudCover)

TickThermalPower(s) ==
  calculateThermalPower(TickSun(s).dni, s.heliostats.operational, s.windSpeed)

\* mutant: the heating branch leaves the reactor temperature as it is
NextReactorTemp_NeverHeats(s) ==
  LET m == speedMultiplier(s)
      thermalPower == TickThermalPower(s)
      optimal == PLASTIC_TYPES[s.selectedPlastic].optimal_temp * RT
  IN  IF thermalPower > 5000 /\ TickSun(s).isDaytime
        THEN s.reactorTemp
        ELSE Max(s.reactorTemp - 500 * m, SALT_TEMP_COLD * RT)

NextReactorTemp(s) ==
  LET m == speedMultiplier(s)
      thermalPower == TickThermalPower(s)
      optimal == PLASTIC_TYPES[s.selectedPlastic].optimal_temp * RT
  IN  IF thermalPower > 5000 /\ TickSun(s).isDaytime
        THEN Min(s.reactorTemp + Min(2000 * m, thermalPower), optimal)
        ELSE Max(s.reactorTemp - 500 * m, SALT_TEMP_COLD * RT)

\* mutant: the hot salt is heated without the SALT_TEMP_HOT ceiling
NextSaltHotTemp_NoCeiling(s) ==
  LET m == speedMultiplier(s)
  IN  IF TickThermalPower(s) > 3000 /\ TickSun(s).isDaytime
        THEN s.saltHotTemp + 240 * m
        ELSE Max(s.saltHotTemp - m, SALT_TEMP_COLD * ST)

NextSaltHotTemp(s) ==
  LET m == speedMultiplier(s)
  IN  IF TickThermalPower(s) > 3000 /\ TickSun(s).isDaytime
        THEN Min(s.saltHotTemp + 240 * m, SALT_TEMP_HOT * ST)
        ELSE Max(s.saltHotTemp - m, SALT_TEMP_COLD * ST)

\* reactorTemp > plasticData.optimal_temp - 200, on the temperature the closure holds
pyrolysisReady(s) ==
  s.reactorTemp > (PLASTIC_TYPES[s.selectedPlastic].optimal_temp - 200) * RT

\* mutant: the producing branch is entered whether or not the reactor is ready
Producing_IgnoresReadiness(s) == TickThermalPower(s) > 2000

Producing(s) == pyrolysisReady(s) /\ TickThermalPower(s) > 2000

TickProducts(s) ==
  processPyrolysis(TickThermalPower(s), speedMultiplier(s), s.selectedPlastic)

\* mutant: the day rollover resets the lifetime totals like the daily statistics
NextProduction_ResetAtRollover(s) ==
  LET products == TickProducts(s)
      prev == IF AdvanceClock(s).rollover THEN ZeroProduction ELSE s.production
  IN  IF Producing(s)
        THEN [hydrogen |-> prev.hydrogen + products.hydrogen,
              carbon |-> prev.carbon + products.carbon,
              wax |-> prev.wax + products.wax,
              waste |-> prev.waste + products.waste,
              totalPlasticProcessed |-> prev.totalPlasticProcessed + products.plastic]
        ELSE prev

NextProduction(s) ==
  LET products == TickProducts(s)
      prev == s.production
  IN  IF Producing(s)
        THEN [hydrogen |-> prev.hydrogen + products.hydrogen,
              carbon |-> prev.carbon + products.carbon,
              wax |-> prev.wax + products.wax,
              waste |-> prev.waste + products.waste,
              totalPlasticProcessed |-> prev.totalPlasticProcessed + products.plastic]
        ELSE prev

\* CONSTANTS.HEAT_LOSS_PER_HOUR * (saltHotTemp - 20) * 0.01 * speedMultiplier / 60
\* in 1/(9*10^8) MWh, on the hot-salt temperature the closure holds
TickHeatLoss(s) == (s.saltHotTemp - 20 * ST) * speedMultiplier(s)

\* mutant: the rollover's setDailyStats is lost
NextDailyStats_NoRolloverReset(s) ==
  LET products == TickProducts(s)
      afterProducts ==
        IF Producing(s)
          THEN [s.dailyStats EXCEPT
                  !.energyCollected = @ + TickThermalPower(s) * speedMultiplier(s),
                  !.plasticProcessed = @ + products.plastic,
                  !.hydrogenProduced = @ + products.hydrogen,
                  !.carbonProduced = @ + products.carbon]
          ELSE s.dailyStats
  IN  [afterProducts EXCEPT !.heatLoss = BigAdd(@, TickHeatLoss(s))]

\* mutant: the producing branch stores the tick's products instead of adding them
NextDailyStats_Overwrite(s) ==
  LET products == TickProducts(s)
      afterReset == IF AdvanceClock(s).rollover THEN ZeroDailyStats ELSE s.dailyStats
      afterProducts ==
        IF Producing(s)
          THEN [afterReset EXCEPT
                  !.energyCollected = TickThermalPower(s) * speedMultiplier(s),
                  !.plasticProcessed = products.plastic,
                  !.hydrogenProduced = products.hydrogen,
                  !.carbonProduced = products.carbon]
          ELSE afterReset
  IN  [afterProducts EXCEPT !.heatLoss = BigAdd(@, TickHeatLoss(s))]

\* mutant: the heat-loss updater sits inside the producing branch
NextDailyStats_HeatLossWhenProducing(s) ==
  LET products == TickProducts(s)
      afterReset == IF AdvanceClock(s).rollover THEN ZeroDailyStats ELSE s.dailyStats
  IN  IF Producing(s)
        THEN [afterReset EXCEPT
                !.energyCollected = @ + TickThermalPower(s) * speedMultiplier(s),
                !.plasticProcessed = @ + products.plastic,
                !.hydrogenProduced = @ + products.hydrogen,
                !.carbonProduced = @ + products.carbon,
                !.heatLoss = BigAdd(@, TickHeatLoss(s))]
        ELSE afterReset

\* the queued setDailyStats calls in order: the rollover's zero record, the
\* producing branch's updater, the heat-loss updater
NextDailyStats(s) ==
  LET products == TickProducts(s)
      afterReset == IF AdvanceClock(s).rollover THEN ZeroDailyStats ELSE s.dailyStats
      afterProducts ==
        IF Producing(s)
          THEN [afterReset EXCEPT
                  !.energyCollected = @ + TickThermalPower(s) * speedMultiplier(s),
                  !.plasticProcessed = @ + products.plastic,
                  !.hydrogenProduced = @ + products.hydrogen,
                  !.carbonProduced = @ + products.carbon]
          ELSE afterReset
  IN  [afterProducts EXCEPT !.heatLoss = BigAdd(@, TickHeatLoss(s))]

\* mutant: a fault counts the heliostat as faulty and leaves it operational
NextHeliostats_FaultKeepsOperational(s, rnd) ==
  LET afterFault ==
        IF rnd.faultRoll
          THEN [s.heliostats EXCEPT !.faulty = @ + 1]
          ELSE s.heliostats
  IN  IF rnd.cleanRoll
        THEN [afterFault EXCEPT
                !.cleaning_needed = Min(@ + 10, afterFault.operational)]
        ELSE afterFault

\* mutant: cleaning_needed is incremented without the 10% cap
NextHeliostats_NoCap(s, rnd) ==
  LET afterFault ==
        IF rnd.faultRoll
          THEN [s.heliostats EXCEPT !.operational = @ - 1, !.faulty = @ + 1]
          ELSE s.heliostats
  IN  IF rnd.cleanRoll
        THEN [afterFault EXCEPT !.cleaning_needed = @ + 10]
        ELSE afterFault

\* mutant: a cleaning also returns a heliostat from faulty to operational
NextHeliostats_CleaningRepairs(s, rnd) ==
  LET afterFault ==
        IF rnd.faultRoll
          THEN [s.heliostats EXCEPT !.operational = @ - 1, !.faulty = @ + 1]
          ELSE s.heliostats
  IN  IF rnd.cleanRoll
        THEN [afterFault EXCEPT
                !.cleaning_needed = Min(@ + 10, afterFault.operational),
                !.operational = @ + 1, !.faulty = @ - 1]
        ELSE afterFault

\* rnd.faultRoll: Math.random() < 0.0001 * speedMultiplier;
\* rnd.cleanRoll: Math.random() < 0.001 * speedMultiplier
NextHeliostats(s, rnd) ==
  LET afterFault ==
        IF rnd.faultRoll
          THEN [s.heliostats EXCEPT !.operational = @ - 1, !.faulty = @ + 1]
          ELSE s.heliostats
  IN  IF rnd.cleanRoll
        THEN [afterFault EXCEPT
                !.cleaning_needed = Min(@ + 10, afterFault.operational)]
        ELSE afterFault

\* mutant: the tick also cools the cold salt like the reactor
TickState_CoolsColdSalt(s, rnd) ==
  LET c == AdvanceClock(s)
      weather == IF s.time % 6 = 0
                   THEN updateWeather(s, rnd)
                   ELSE [cloudCover |-> s.cloudCover, windSpeed |-> s.windSpeed]
  IN  [s EXCEPT
         !.time = @ + 1,
         !.currentDate = IF c.rollover THEN @ + 1 ELSE @,
         !.currentHour = c.newHour,
         !.currentMinute = c.finalMinute,
         !.cloudCover = weather.cloudCover,
         !.windSpeed = weather.windSpeed,
         !.reactorTemp = NextReactorTemp(s),
         !.saltHotTemp = NextSaltHotTemp(s),
         !.saltColdTemp = @ - 1,
         !.pyrolysisActive = pyrolysisReady(s),
         !.production = NextProduction(s),
         !.dailyStats = NextDailyStats(s),
         !.heliostats = NextHeliostats(s, rnd),
         !.effectLocation = s.selectedLocation]

\* mutant: the weather process runs on every tick
TickState_WeatherEveryTick(s, rnd) ==
  LET c == AdvanceClock(s)
      weather == updateWeather(s, rnd)
  IN  [s EXCEPT
         !.time = @ + 1,
         !.currentDate = IF c.rollover THEN @ + 1 ELSE @,
         !.currentHour = c.newHour,
         !.currentMinute = c.finalMinute,
         !.cloudCover = weather.cloudCover,
         !.windSpeed = weather.windSpeed,
         !.reactorTemp = NextReactorTemp(s),
         !.saltHotTemp = NextSaltHotTemp(s),
         !.pyrolysisActive = pyrolysisReady(s),
         !.production = NextProduction(s),
         !.dailyStats = NextDailyStats(s),
         !.heliostats = NextHeliostats(s, rnd),
         !.effectLocation = s.selectedLocation]

\* one firing of the interval callback, with every state update it queues applied
TickState(s, rnd) ==
  LET c == AdvanceClock(s)
      weather == IF s.time % 6 = 0
                   THEN updateWeather(s, rnd)
                   ELSE [cloudCover |-> s.cloudCover, windSpeed |-> s.windSpeed]
  IN  [s EXCEPT
         !.time = @ + 1,
         !.currentDate = IF c.rollover THEN @ + 1 ELSE @,
         !.currentHour = c.newHour,
         !.currentMinute = c.finalMinute,
         !.cloudCover = weather.cloudCover,
         !.windSpeed = weather.windSpeed,
         !.reactorTemp = NextReactorTemp(s),
         !.saltHotTemp = NextSaltHotTemp(s),
         !.pyrolysisActive = pyrolysisReady(s),
         !.production = NextProduction(s),
         !.dailyStats = NextDailyStats(s),
         !.heliostats = NextHeliostats(s, rnd),
         !.effectLocation = s.selectedLocation]

\* ------------------------------------------------------------ the buttons

\* mutant: RESET moves the clock six hours on instead of to 6:00
ResetState_ClockSixHoursOn(s) ==
  [s EXCEPT
     !.time = 0, !.currentHour = (@ + 6) % 24, !.currentMinute = 0,
     !.reactorTemp = 290 * RT, !.saltHotTemp = 420 * ST, !.saltColdTemp = 290,
     !.cloudCover = 0, !.windSpeed = 0,
     !.production = ZeroProduction, !.dailyStats = ZeroDailyStats]

\* mutant: RESET clears the lifetime totals and keeps the daily statistics
ResetState_KeepsDailyStats(s) ==
  [s EXCEPT
     !.time = 0, !.currentHour = 6, !.currentMinute = 0,
     !.reactorTemp = 290 * RT, !.saltHotTemp = 420 * ST, !.saltColdTemp = 290,
     !.cloudCover = 0, !.windSpeed = 0,
     !.production = ZeroProduction]

\* the RESET button's onClick
ResetState(s) ==
  [s EXCEPT
     !.time = 0, !.currentHour = 6, !.currentMinute = 0,
     !.reactorTemp = 290 * RT, !.saltHotTemp = 420 * ST, !.saltColdTemp = 290,
     !.cloudCover = 0, !.windSpeed = 0,
     !.production = ZeroProduction, !.dailyStats = ZeroDailyStats]

\* the dependency list of the simulation effect: the effect is torn down and set
\* up again, with the values of the new render, when one of these changes
EffectDeps(s) ==
  <<s.isRunning, s.time, s.currentHour, s.currentMinute, s.reactorTemp,
    s.saltHotTemp, s.cloudCover, s.windSpeed, s.currentDate,
    s.selectedPlastic, s.selectedSpeed>>

\* the state n that follows s by a user event, with the location the interval
\* closure then holds (no interval while stopped)
Rendered(s, n) ==
  [n EXCEPT !.effectLocation =
     IF ~n.isRunning \/ EffectDeps(n) # EffectDeps(s)
       THEN n.selectedLocation ELSE s.effectLocation]

\* ------------------------------------------------------------ bounds and inputs

\* steps explored from each initial state
MaxSteps == 3

\* the options offered to the selectors in the explored steps
LocationInputs == {Riyadh, Seville}
PlasticInputs == {"HDPE", "PS"}
SpeedInputs == DOMAIN SPEED_OPTIONS

\* values of Math.random() * 30, Math.random() * 15 (percent) and
\* Math.random() * 15 (1/1000 m/s) drawn by updateWeather
CloudGains == {29}
CloudLosses == {14}
GustSpeeds == {12000}

NoRolls ==
  [cloudRoll |-> FALSE, cloudAmount |-> 0, gustRoll |-> FALSE, gustSpeed |-> 0,
   faultRoll |-> FALSE, cleanRoll |-> FALSE]

\* the outcomes of the Math.random() calls of one tick that matter in state s
Rolls(s) ==
  LET drawn ==
        {[cloudRoll |-> cr, cloudAmount |-> ca, gustRoll |-> gr, gustSpeed |-> gs] :
           cr \in BOOLEAN, ca \in CloudGains \cup CloudLosses \cup {0},
           gr \in BOOLEAN, gs \in GustSpeeds \cup {0}}
      used ==
        IF s.time % 6 = 0
          THEN {w \in drawn :
                  /\ w.cloudAmount \in (IF w.cloudRoll THEN CloudGains
                                        ELSE IF s.cloudCover > 0 THEN CloudLosses ELSE {0})
                  /\ w.gustSpeed \in (IF w.gustRoll THEN GustSpeeds ELSE {0})}
          ELSE {[cloudRoll |-> FALSE, cloudAmount |-> 0, gustRoll |-> FALSE, gustSpeed |-> 0]}
  IN  {[cloudRoll |-> w.cloudRoll, cloudAmount |-> w.cloudAmount,
        gustRoll |-> w.gustRoll, gustSpeed |-> w.gustSpeed,
        faultRoll |-> f, cleanRoll |-> c] : w \in used, f \in BOOLEAN, c \in BOOLEAN}

\* ------------------------------------------------------------ initial states

\* the state after k ticks in which no random event fires (ticks fire only
\* while the simulation is running); a run of k ticks is a run of k \div 2
\* ticks followed by a run of the remaining ones, and every intermediate state
\* is bound as a value before the run continues from it
RECURSIVE QuietRunFrom(_, _)
QuietRunFrom(s, k) ==
  IF k = 0 \/ ~s.isRunning THEN s
  ELSE IF k = 1 THEN TickState(s, NoRolls)
  ELSE CHOOSE r \in {QuietRunFrom(m, k - (k \div 2)) :
                       m \in {QuietRunFrom(s, k \div 2)}} : TRUE

QuietRun(start, k) == CHOOSE r \in {QuietRunFrom(s, k) : s \in {start}} : TRUE

\* the rolls of a tick in which clouds form if the weather is updated
CloudRolls == [NoRolls EXCEPT !.cloudRoll = TRUE, !.cloudAmount = 29]

\* the state after k ticks in each of which the weather update, when it is
\* due, forms clouds and no other random event fires
RECURSIVE CloudyRunFrom(_, _)
CloudyRunFrom(s, k) ==
  IF k = 0 \/ ~s.isRunning THEN s
  ELSE IF k = 1 THEN TickState(s, CloudRolls)
  ELSE CHOOSE r \in {CloudyRunFrom(m, k - (k \div 2)) :
                       m \in {CloudyRunFrom(s, k \div 2)}} : TRUE

CloudyRun(start, k) == CHOOSE r \in {CloudyRunFrom(s, k) : s \in {start}} : TRUE

\* the state after the speed selector is set to v
WithSpeed(s, v) == [s EXCEPT !.selectedSpeed = v]

\* the state after (a tick whose fault or cleaning roll fires, then RESET) was
\* repeated until the field holds the given counts: RESET restores everything
\* such a tick changes from 6:00 with a cold reactor except the heliostat field
WithField(s, operational, cleaning) ==
  [s EXCEPT !.heliostats = [operational |-> operational, maintenance |-> 0,
                            cleaning_needed |-> cleaning,
                            faulty |-> HELIOSTAT_COUNT - operational]]

\* the component after the selectors were set and START was pressed
Started(location, plastic, speed) ==
  [InitialState EXCEPT !.selectedLocation = location, !.effectLocation = location,
                       !.selectedPlastic = plastic, !.selectedSpeed = speed,
                       !.isRunning = TRUE]

\* START pressed on the freshly constructed component with the default
\* location and plastic
Run0 == Started(Riyadh, "HDPE", UltraFast)

\* runs from START: the speed chosen before START and the number of ticks, in
\* none of which a random event fires
Runs ==
  {[speed |-> UltraFast, ticks |-> 14],   \* 22:48, day 15: the next tick rolls over
   [speed |-> VeryFast,  ticks |-> 22],   \* 23:36, day 15
   [speed |-> RealTime,  ticks |-> 59],   \* 6:59, day 15
   [speed |-> RealTime,  ticks |-> 359],  \* 11:59, day 15, after a clear morning
   [speed |-> UltraFast, ticks |-> 183],  \* 9:36, day 24: the next tick takes the reactor past optimal_temp - 200
   [speed |-> UltraFast, ticks |-> 184],  \* 10:48, day 24: reactor just ready
   [speed |-> UltraFast, ticks |-> 186],  \* 13:12, day 24: producing, weather due
   [speed |-> UltraFast, ticks |-> 189],  \* 16:48, day 24: ready, the sun is down
   [speed |-> UltraFast, ticks |-> 194],  \* 22:48, day 24: after a producing day
   [speed |-> UltraFast, ticks |-> 385]}  \* 12:00, day 34: reactor and salt at their caps

RunState(r) == QuietRun(Started(Riyadh, "HDPE", r.speed), r.ticks)

\* 9:36, day 15, at 12x: clouds formed at each of the three weather updates
\* (cloud cover 87), the next tick updates the weather again
Overcast == CloudyRun(Started(Riyadh, "HDPE", Fast), 18)

\* heliostat fields reached by fault and cleaning rolls
Fields ==
  {[operational |-> 0, cleaning |-> 0], [operational |-> 1, cleaning |-> 0],
   [operational |-> 10, cleaning |-> 0],
   [operational |-> HELIOSTAT_COUNT, cleaning |-> 2120]}

\* states the component can be in: constructed, started, and after the runs above
InitStates ==
  {InitialState, Run0, Overcast}
    \cup {RunState(r) : r \in Runs}
    \cup {WithField(Run0, f.operational, f.cleaning) : f \in Fields}

NotATick ==
  [op |-> "init", rollover |-> FALSE, producing |-> FALSE, ready |-> FALSE,
   thermalPower |-> 0, isDaytime |-> FALSE, weather |-> FALSE,
   faultRoll |-> FALSE, cleanRoll |-> FALSE]

TickInfo(s, rnd) ==
  [op |-> "tick", rollover |-> AdvanceClock(s).rollover, producing |-> Producing(s),
   ready |-> pyrolysisReady(s), thermalPower |-> TickThermalPower(s),
   isDaytime |-> TickSun(s).isDaytime, weather |-> s.time % 6 = 0,
   faultRoll |-> rnd.faultRoll, cleanRoll |-> rnd.cleanRoll]

\* ------------------------------------------------------------ specification

SetSt(n) ==
  /\ selectedLocation' = n.selectedLocation
  /\ selectedPlastic' = n.selectedPlastic
  /\ selectedSpeed' = n.selectedSpeed
  /\ currentDate' = n.currentDate
  /\ time' = n.time
  /\ isRunning' = n.isRunning
  /\ currentHour' = n.currentHour
  /\ currentMinute' = n.currentMinute
  /\ cloudCover' = n.cloudCover
  /\ windSpeed' = n.windSpeed
  /\ heliostats' = n.heliostats
  /\ reactorTemp' = n.reactorTemp
  /\ saltHotTemp' = n.saltHotTemp
  /\ saltColdTemp' = n.saltColdTemp
  /\ pyrolysisActive' = n.pyrolysisActive
  /\ production' = n.production
  /\ dailyStats' = n.dailyStats
  /\ effectLocation' = n.effectLocation

InSt(n) ==
  /\ selectedLocation = n.selectedLocation
  /\ selectedPlastic = n.selectedPlastic
  /\ selectedSpeed = n.selectedSpeed
  /\ currentDate = n.currentDate
  /\ time = n.time
  /\ isRunning = n.isRunning
  /\ currentHour = n.currentHour
  /\ currentMinute = n.currentMinute
  /\ cloudCover = n.cloudCover
  /\ windSpeed = n.windSpeed
  /\ heliostats = n.heliostats
  /\ reactorTemp = n.reactorTemp
  /\ saltHotTemp = n.saltHotTemp
  /\ saltColdTemp = n.saltColdTemp
  /\ pyrolysisActive = n.pyrolysisActive
  /\ production = n.production
  /\ dailyStats = n.dailyStats
  /\ effectLocation = n.effectLocation

Init ==
  /\ \E s \in InitStates : InSt(s)
  /\ last = NotATick
  /\ nsteps = 0

Step(op, n) ==
  /\ nsteps < MaxSteps
  /\ nsteps' = nsteps + 1
  /\ \E s \in {St} : \E r \in {Rendered(s, n)} : SetSt(r)
  /\ last' = [NotATick EXCEPT !.op = op]

\* mutant: the interval is live whether or not the simulation is running
Tick_WhileStopped ==
  /\ nsteps < MaxSteps
  /\ nsteps' = nsteps + 1
  /\ \E s \in {St} : \E rnd \in Rolls(s) :
       /\ \E n \in {TickState(s, rnd)} : SetSt(n)
       /\ last' = TickInfo(s, rnd)

\* the interval callback fires (only while running)
Tick ==
  /\ isRunning
  /\ nsteps < MaxSteps
  /\ nsteps' = nsteps + 1
  /\ \E s \in {St} : \E rnd \in Rolls(s) :
       /\ \E n \in {TickState(s, rnd)} : SetSt(n)
       /\ last' = TickInfo(s, rnd)

Reset == Step("reset", ResetState(St))

StartStop == Step("startstop", [St EXCEPT !.isRunning = ~isRunning])

SelectLocation ==
  \E v \in LocationInputs \ {selectedLocation} :
    Step("location", [St EXCEPT !.selectedLocation = v])

SelectPlastic ==
  \E v \in PlasticInputs \ {selectedPlastic} :
    Step("plastic", [St EXCEPT !.selectedPlastic = v])

SelectSpeed ==
  \E v \in SpeedInputs \ {selectedSpeed} :
    Step("speed", [St EXCEPT !.selectedSpeed = v])

Next ==
  \/ Tick
  \/ Reset
  \/ StartStop
  \/ SelectLocation
  \/ SelectPlastic
  \/ SelectSpeed

Spec == Init /\ [][Next]_vars

\* The selectors' onChange handlers store whatever value the event carries
\* (setSelectedLocation(e.target.value), setSelectedSpeed(e.target.value)):
\* keys that are in no catalog, as an event not raised by the rendered options
\* delivers them.
UnlistedLocation == "Atlantis"
UnlistedSpeed == "Warp"

SelectUnlistedLocation ==
  /\ selectedLocation # UnlistedLocation
  /\ Step("location", [St EXCEPT !.selectedLocation = UnlistedLocation])

SelectUnlistedSpeed ==
  /\ selectedSpeed # UnlistedSpeed
  /\ Step("speed", [St EXCEPT !.selectedSpeed = UnlistedSpeed])

NextAnyKey ==
  \/ Next
  \/ SelectUnlistedLocation
  \/ SelectUnlistedSpeed

SpecAnyKey == Init /\ [][NextAnyKey]_vars

\* ------------------------------------------------------------ properties

\* a step of the interval callback
TickStep == nsteps' = nsteps + 1 /\ last'.op = "tick"

\* the multiplier of the selected speed preset
Multiplier == SPEED_OPTIONS[selectedSpeed]

\* simulated minutes since 0:00 of the day before 1 January 2026
SimulatedMinutes == currentDate * 1440 + currentHour * 60 + currentMinute

\* the hour carry of a tick from the current clock reaches 24
CarriesPast24 == currentHour * 60 + currentMinute + Multiplier >= 1440

\* C1: in every reachable state the simulated minute is in [0,60) and the
\* simulated hour is in [0,24), whatever preset multiplier the ticks ran at.
C1_ClockNormalized ==
  /\ currentMinute \in 0..59
  /\ currentHour \in 0..23

\* a tick at 144x that carried the clock over midnight by more than an hour
C1_Witness ==
  /\ last.op = "tick" /\ last.rollover
  /\ selectedSpeed = Extreme /\ currentHour >= 1

\* C2: every tick advances simulated time by exactly the multiplier in minutes,
\* and the date advances, by exactly one day, iff the hour carries past 24.
C2_TickAdvancesByMultiplier ==
  [][TickStep =>
       /\ SimulatedMinutes' = SimulatedMinutes + Multiplier
       /\ currentDate' = IF CarriesPast24 THEN currentDate + 1 ELSE currentDate]_vars

\* a tick at 1x carried minute 59 into the next hour
C2_Witness ==
  /\ last.op = "tick" /\ ~last.rollover
  /\ selectedSpeed = RealTime /\ currentHour = 7 /\ currentMinute = 0

\* C3 as stated: once the tick that rolls the day over has completed, every
\* DailyStats field is 0.
C3_Original ==
  (last.op = "tick" /\ last.rollover) => dailyStats = ZeroDailyStats

\* C3 amended: the tick that rolls the day over discards the previous day's
\* DailyStats and leaves only what that tick itself adds: energy collected,
\* plastic, hydrogen and carbon are 0 (the tick falls in the night and produces
\* nothing) and heatLoss is that tick's heat loss, which is greater than 0.
C3_RolloverKeepsOnlyOwnTick ==
  [][(TickStep /\ CarriesPast24) =>
       /\ dailyStats'.energyCollected = 0
       /\ dailyStats'.plasticProcessed = 0
       /\ dailyStats'.hydrogenProduced = 0
       /\ dailyStats'.carbonProduced = 0
       /\ dailyStats'.heatLoss = [hi |-> 0, lo |-> (saltHotTemp - 20 * ST) * Multiplier]
       /\ dailyStats'.heatLoss.lo > 0]_vars

\* the day rolled over after a producing day
C3_Witness ==
  /\ last.op = "tick" /\ last.rollover
  /\ production.carbon > 0
  /\ dailyStats.carbonProduced = 0 /\ dailyStats.energyCollected = 0

\* C4: across any tick, a day rollover included, no ProductionTotals field
\* decreases.
C4_ProductionNonDecreasing ==
  [][TickStep =>
       /\ production'.hydrogen >= production.hydrogen
       /\ production'.carbon >= production.carbon
       /\ production'.wax >= production.wax
       /\ production'.waste >= production.waste
       /\ production'.totalPlasticProcessed >= production.totalPlasticProcessed]_vars

\* a producing tick was followed by the tick that rolled the day over, and the
\* totals are still there
C4_Witness ==
  /\ last.op = "tick" /\ last.rollover
  /\ production.hydrogen > 0 /\ production.wax > 0 /\ production.waste > 0
  /\ production.totalPlasticProcessed > 0

\* C5: across a tick that does not roll the day over, no DailyStats field
\* decreases.
C5_DailyStatsNonDecreasing ==
  [][(TickStep /\ ~CarriesPast24) =>
       /\ dailyStats'.energyCollected >= dailyStats.energyCollected
       /\ dailyStats'.plasticProcessed >= dailyStats.plasticProcessed
       /\ dailyStats'.hydrogenProduced >= dailyStats.hydrogenProduced
       /\ dailyStats'.carbonProduced >= dailyStats.carbonProduced
       /\ BigLeq(dailyStats.heatLoss, dailyStats'.heatLoss)]_vars

\* a producing tick, not the first of its day, added to the daily statistics
C5_Witness ==
  /\ last.op = "tick" /\ ~last.rollover /\ last.producing
  /\ dailyStats.plasticProcessed > 25 * Multiplier
  /\ dailyStats.plasticProcessed < production.totalPlasticProcessed

\* C6 as stated: every tick adds thermal power x multiplier / 60 MWh to
\* DailyStats.energyCollected, whether or not the reactor is ready.
C6_EnergyEveryTick ==
  [][TickStep =>
       dailyStats'.energyCollected =
         (IF CarriesPast24 THEN 0 ELSE dailyStats.energyCollected)
           + TickThermalPower(St) * Multiplier]_vars

\* C7: every tick adds the heat loss of the hot salt above 20 degrees C,
\* 0.02 * (saltHotTemp - 20) * 0.01 * multiplier / 60 MWh, to
\* DailyStats.heatLoss, whatever the reactor readiness, thermal power and hour.
C7_HeatLossEveryTick ==
  [][TickStep =>
       LET before == IF CarriesPast24 THEN BigZero ELSE dailyStats.heatLoss
       IN  /\ dailyStats'.heatLoss = BigAdd(before, (saltHotTemp - 20 * ST) * Multiplier)
           /\ BigLess(before, dailyStats'.heatLoss)]_vars

\* a night tick with a cold reactor and no thermal power added heat loss to a
\* day that already had some
C7_Witness ==
  /\ last.op = "tick" /\ ~last.rollover
  /\ ~last.ready /\ ~last.isDaytime /\ last.thermalPower = 0
  /\ dailyStats.heatLoss.hi >= 1

\* C8: in every reachable state operational + faulty is at most the installed
\* count.
C8_FieldWithinInstalled ==
  heliostats.operational + heliostats.faulty <= HELIOSTAT_COUNT

\* a heliostat of the full field went faulty in a tick
C8_Witness ==
  /\ last.op = "tick" /\ last.faultRoll
  /\ heliostats.faulty = 1 /\ heliostats.operational = HELIOSTAT_COUNT - 1

\* C9 as stated: no heliostat count is ever negative.
C9_CountsNonNegative ==
  /\ heliostats.operational >= 0
  /\ heliostats.maintenance >= 0
  /\ heliostats.cleaning_needed >= 0
  /\ heliostats.faulty >= 0

\* C10 as stated: in every reachable state cleaning_needed is at most 10% of
\* the current operational count (stated for the states in which the
\* operational count is not negative, so that what refutes it is not C9's
\* defect).
C10_Original ==
  heliostats.operational >= 0 =>
    heliostats.cleaning_needed <= heliostats.operational

\* C10 amended: the cap is applied when cleaning_needed is incremented: after a
\* tick whose cleaning roll fired, cleaning_needed is at most 10% of the
\* operational count that tick leaves; a later tick that lowers operational
\* does not lower cleaning_needed with it.
C10_CappedWhenIncremented ==
  [][(TickStep /\ last'.cleanRoll) =>
       /\ heliostats'.cleaning_needed <= heliostats'.operational
       /\ heliostats'.cleaning_needed <= heliostats.cleaning_needed + 10]_vars

\* a cleaning roll found the count at the cap: 10% of 2127 operational
C10_Witness ==
  /\ last.op = "tick" /\ last.cleanRoll
  /\ heliostats.operational = HELIOSTAT_COUNT
  /\ heliostats.cleaning_needed = HELIOSTAT_COUNT

\* C11 as stated: in every reachable state the reactor temperature is at least
\* the cold-salt floor and at most the optimal temperature of the feedstock
\* that is currently selected.
C11_ReactorWithinRange ==
  /\ reactorTemp >= SALT_TEMP_COLD * RT
  /\ reactorTemp <= PLASTIC_TYPES[selectedPlastic].optimal_temp * RT

\* C12: in every reachable state the hot-salt temperature is at least the
\* cold-salt floor (290) and at most the hot-salt ceiling (565).
C12_HotSaltWithinRange ==
  /\ saltHotTemp >= SALT_TEMP_COLD * ST
  /\ saltHotTemp <= SALT_TEMP_HOT * ST

\* a daytime tick at 144x found the hot salt at the ceiling and left it there
C12_Witness ==
  /\ last.op = "tick" /\ last.isDaytime /\ last.thermalPower > 3000
  /\ selectedSpeed = Extreme
  /\ saltHotTemp = SALT_TEMP_HOT * ST

\* C13: the cold-salt temperature is 290 in every reachable state, and no
\* tick (nor any other step) changes it.
C13_ColdSaltConstant ==
  [][saltColdTemp = SALT_TEMP_COLD /\ saltColdTemp' = saltColdTemp]_vars

\* a tick heated the reactor and the hot salt; the cold salt is where it was
C13_Witness ==
  /\ last.op = "tick" /\ last.isDaytime
  /\ reactorTemp > 290 * RT /\ saltHotTemp > 420 * ST
  /\ saltColdTemp = SALT_TEMP_COLD

\* C14 as stated: after RESET all mutable engine state is at its initial
\* default: tick count 0, clock 6:00, reactor 290, hot salt 420, cold salt 290,
\* no cloud, no wind, zero ProductionTotals and DailyStats, and also the
\* heliostat field, the simulated date and the pyrolysis-active flag.
C14_ResetRestoresDefaults ==
  last.op = "reset" =>
    /\ time = InitialState.time
    /\ currentHour = InitialState.currentHour
    /\ currentMinute = InitialState.currentMinute
    /\ reactorTemp = InitialState.reactorTemp
    /\ saltHotTemp = InitialState.saltHotTemp
    /\ saltColdTemp = InitialState.saltColdTemp
    /\ cloudCover = InitialState.cloudCover
    /\ windSpeed = InitialState.windSpeed
    /\ production = InitialState.production
    /\ dailyStats = InitialState.dailyStats
    /\ heliostats = InitialState.heliostats
    /\ currentDate = InitialState.currentDate
    /\ pyrolysisActive = InitialState.pyrolysisActive

\* C15: RESET is idempotent: the state a RESET leaves is the state a second
\* RESET pressed right after it leaves.
C15_ResetIdempotent ==
  [][/\ last'.op = "reset" => Rendered(St', ResetState(St')) = St'
     /\ (last.op = "reset" /\ last'.op = "reset") => St' = St]_vars

\* RESET was pressed in a running simulation that had produced on an earlier day
C15_Witness ==
  /\ last.op = "reset" /\ isRunning
  /\ time = 0 /\ production = ZeroProduction /\ dailyStats = ZeroDailyStats
  /\ currentDate > InitialState.currentDate /\ pyrolysisActive

\* C16: in every reachable state cloud cover is within [0,100] percent and
\* wind speed within [0,15] m/s.
C16_WeatherBounded ==
  /\ cloudCover >= 0 /\ cloudCover <= 100
  /\ windSpeed >= 0 /\ windSpeed <= 15000

\* a weather update formed clouds on an 87 percent cover, which the cap held
\* at 100, and drew a gust
C16_Witness ==
  /\ last.op = "tick" /\ last.weather
  /\ cloudCover = 100 /\ windSpeed > 10000

\* the tick from the current state does not enter the producing branch: the
\* reactor is not above optimal_temp - 200 or thermal power is not above 2 MW
NotProducingTick ==
  TickStep /\ ~(pyrolysisReady(St) /\ TickThermalPower(St) > 2000)

\* C17 as stated: on a tick in which the reactor is not ready or thermal power
\* is not above 2 MW, no ProductionTotals field changes and the daily plastic,
\* hydrogen and carbon do not change.
C17_Original ==
  [][NotProducingTick =>
       /\ production' = production
       /\ dailyStats'.plasticProcessed = dailyStats.plasticProcessed
       /\ dailyStats'.hydrogenProduced = dailyStats.hydrogenProduced
       /\ dailyStats'.carbonProduced = dailyStats.carbonProduced]_vars

\* C17 amended: on such a tick no ProductionTotals field changes and nothing
\* is added to the daily plastic, hydrogen and carbon: they keep their values,
\* except on the tick that rolls the day over, which sets them to 0.
C17_NoProductWhenNotProducing ==
  [][NotProducingTick =>
       /\ production' = production
       /\ dailyStats'.plasticProcessed =
            (IF CarriesPast24 THEN 0 ELSE dailyStats.plasticProcessed)
       /\ dailyStats'.hydrogenProduced =
            (IF CarriesPast24 THEN 0 ELSE dailyStats.hydrogenProduced)
       /\ dailyStats'.carbonProduced =
            (IF CarriesPast24 THEN 0 ELSE dailyStats.carbonProduced)]_vars

\* a tick after sunset with the reactor ready left the day's products alone
C17_Witness ==
  /\ last.op = "tick" /\ ~last.rollover
  /\ last.ready /\ last.thermalPower <= 2000
  /\ production.hydrogen > 0 /\ dailyStats.hydrogenProduced > 0
  /\ dailyStats.plasticProcessed > 0 /\ dailyStats.carbonProduced > 0

\* C18: on a producing tick the plastic processed is
\* min(MW * 1000 / (450 / 3600), 500) * (60 * multiplier / 3600) kg and the
\* hydrogen is plastic_kg * 1000 * h2_yield * 2.016 / 1e6 kg (here in 1/3 kg and
\* 1/1250 kg); with PS, at 10 MW or any other producing power, the 60 ticks at
\* 1x and the 5 ticks at 12x that cover an hour add 500 kg of plastic and
\* 95.76 kg of hydrogen.
C18_ProducingTickMass ==
  [][(TickStep /\ last'.producing) =>
       LET rate == Min((last'.thermalPower * 3600) \div 450, 500)
           plastic == (rate * 60 * Multiplier * 3) \div 3600
           hydrogen == (plastic * PLASTIC_TYPES[selectedPlastic].h2_yield * 252) \div 300
           dPlastic == production'.totalPlasticProcessed - production.totalPlasticProcessed
           dHydrogen == production'.hydrogen - production.hydrogen
           ticksPerHour == 60 \div Multiplier
       IN  /\ dPlastic = plastic
           /\ dHydrogen = hydrogen
           /\ (selectedPlastic = "PS" /\ Multiplier \in {1, 12}) =>
                /\ dPlastic * ticksPerHour = 500 * 3
                /\ dHydrogen * ticksPerHour * 100 = 9576 * 1250
                /\ processPyrolysis(10000, Multiplier, "PS").plastic = dPlastic
                /\ processPyrolysis(10000, Multiplier, "PS").hydrogen = dHydrogen]_vars

\* a producing tick at 12x with feedstock PS added its 100 kg of plastic
C18_Witness ==
  /\ last.op = "tick" /\ last.producing
  /\ selectedPlastic = "PS" /\ selectedSpeed = Fast
  /\ dailyStats.plasticProcessed >= 300

\* the length of the day the tick computes, the only divisor in the tick that
\* is not a constant (1/10000 minute)
TickDayLength == Sunset(DayOfYear(currentDate), effectLocation)
                   - Sunrise(DayOfYear(currentDate), effectLocation)

\* C19: a tick with no operational heliostat, or with zero thermal power,
\* completes normally: its thermal power is 0, it adds no product and no
\* collected energy, it divides by nothing that is 0 and every numeric state
\* field is a number afterwards.
C19_ZeroPowerNoProduct ==
  [][(TickStep /\ (heliostats.operational = 0 \/ last'.thermalPower = 0)) =>
       /\ last'.thermalPower = 0
       /\ ~last'.producing
       /\ production' = production
       /\ dailyStats'.plasticProcessed <= dailyStats.plasticProcessed
       /\ dailyStats'.hydrogenProduced <= dailyStats.hydrogenProduced
       /\ dailyStats'.carbonProduced <= dailyStats.carbonProduced
       /\ dailyStats'.energyCollected <= dailyStats.energyCollected
       /\ TickDayLength > 0
       /\ reactorTemp' \in Int /\ saltHotTemp' \in Int
       /\ cloudCover' \in Int /\ windSpeed' \in Int
       /\ \A f \in DOMAIN production' : production'[f] \in Int
       /\ \A f \in DOMAIN heliostats' : heliostats'[f] \in Int]_vars

\* a daytime tick with every heliostat faulty: the sun is up, thermal power is 0
C19_Witness ==
  /\ last.op = "tick" /\ last.isDaytime
  /\ last.thermalPower = 0 /\ ~last.producing
  /\ heliostats.operational = 0 /\ heliostats.faulty = HELIOSTAT_COUNT

\* C20 as stated: a key that is in no catalog is rejected when it is selected,
\* so no tick ever runs on the defaults substituted for an unknown key
\* (latitude 0 and DNI 6.0 for the location, multiplier 72 for the speed).
C20_NoSilentDefaults ==
  [][TickStep =>
       /\ effectLocation \in DOMAIN SOLAR_DATA
       /\ selectedSpeed \in DOMAIN SPEED_OPTIONS]_vars

\* cloud covers the solar model is compared at (percent)
CloudLevels == {0, 1, 29, 58, 87, 100}

\* the solar model at the clock of the current state
SunNow(dayOfYear, location, cloud) ==
  calculateSunParameters(currentHour, currentMinute, dayOfYear, location, cloud)

\* C21: at a fixed hour, minute, day and location the DNI of the solar model
\* does not increase with the cloud cover: DNI(c2) <= DNI(c1) whenever
\* c1 <= c2, and so DNI(c) <= DNI(0).
C21_DniNonIncreasingInCloud ==
  LET dni == [c \in CloudLevels |->
                SunNow(DayOfYear(currentDate), selectedLocation, c).dni]
  IN  \A c1, c2 \in CloudLevels : c1 <= c2 => dni[c2] <= dni[c1]

\* a daytime tick under full cloud: the DNI is positive and below the clear-sky DNI
C21_Witness ==
  /\ last.op = "tick" /\ cloudCover = 100
  /\ SunNow(DayOfYear(currentDate), selectedLocation, 100).dni > 0
  /\ SunNow(DayOfYear(currentDate), selectedLocation, 100).dni
       < SunNow(DayOfYear(currentDate), selectedLocation, 0).dni

\* the day of the year on which the seasonal offset of sunrise and sunset is
\* sin(0) = 0, so that the sun rises at 6:00 and sets at 18:00 everywhere
EquinoxDay == 81

\* the clock of the current state in the unit of Sunrise and Sunset
HourDecimalNow == (currentHour * 60 + currentMinute) * 10000

\* C22: when the decimal hour is before sunrise or after sunset of the day
\* and location, the solar model returns elevation 0, DNI 0 and is-daytime
\* false; from sunrise to sunset, both instants included, it is daytime.
C22_DarkOutsideDaylight ==
  \A d \in {DayOfYear(currentDate), EquinoxDay}, loc \in LocationInputs :
    LET sun == SunNow(d, loc, cloudCover)
    IN  IF HourDecimalNow < Sunrise(d, loc) \/ HourDecimalNow > Sunset(d, loc)
          THEN sun = [elevation |-> 0, dni |-> 0, isDaytime |-> FALSE]
          ELSE sun.isDaytime

\* RESET put the clock at 6:00, exactly the sunrise of the equinox day, which the
\* solar model counts as daytime, and before the sunrise of the current day
C22_Witness ==
  /\ last.op = "reset"
  /\ HourDecimalNow = Sunrise(EquinoxDay, selectedLocation)
  /\ SunNow(EquinoxDay, selectedLocation, cloudCover).isDaytime
  /\ SunNow(EquinoxDay, selectedLocation, cloudCover).dni = 0
  /\ ~SunNow(DayOfYear(currentDate), selectedLocation, cloudCover).isDaytime

\* C23 as stated: on a tick that starts and ends under 100 percent cloud
\* cover, with the full heliostat field, the reactor temperature does not rise:
\* it falls by the fixed cooling rate (0.05 degrees per simulated minute) or
\* stays at the cold-salt floor of 290.
C23_FullCloudCoolsReactor ==
  [][(/\ TickStep
      /\ cloudCover = 100 /\ cloudCover' = 100
      /\ heliostats.operational = HELIOSTAT_COUNT) =>
       reactorTemp' = Max(reactorTemp - 500 * Multiplier, SALT_TEMP_COLD * RT)]_vars

\* the clock has just reached 12:00 of the first day in a run at 1x from 6:00
\* with Riyadh, HDPE, no cloud and the heliostat field as constructed
NoonOfClearMorning ==
  /\ last.op = "tick" /\ time = 360
  /\ currentDate = InitialState.currentDate
  /\ currentHour = 12 /\ currentMinute = 0
  /\ selectedSpeed = RealTime /\ selectedPlastic = "HDPE"
  /\ selectedLocation = Riyadh /\ effectLocation = Riyadh
  /\ cloudCover = 0
  /\ heliostats.operational + heliostats.faulty = HELIOSTAT_COUNT
  /\ heliostats.faulty <= 1

\* C24: from 6:00 with Riyadh, HDPE, multiplier 1 and no cloud, when the clock
\* reaches 12:00 the thermal power of the tick is greater than 0 and the
\* reactor temperature is above its initial 290; it is never below 290.
C24_ClearMorningHeatsReactor ==
  /\ reactorTemp >= InitialState.reactorTemp
  /\ NoonOfClearMorning =>
       /\ last.thermalPower > 0
       /\ reactorTemp > InitialState.reactorTemp

\* the tick that reaches 12:00 ran at more than 100 MW and the reactor is warm
C24_Witness ==
  /\ NoonOfClearMorning
  /\ last.thermalPower > 100000
  /\ reactorTemp > 300 * RT

\* C25 as stated: a tick that runs the weather process computes its DNI and
\* thermal power from the cloud cover and wind speed that its own weather
\* update produces.
C25_SunUsesUpdatedWeather ==
  [][(TickStep /\ last'.weather) =>
       last'.thermalPower =
         calculateThermalPower(
           calculateSunParameters(currentHour', currentMinute', DayOfYear(currentDate),
                                  effectLocation, cloudCover').dni,
           heliostats.operational, windSpeed')]_vars

\* C26 as stated: the readiness test that gates production is made on the
\* reactor temperature as the same tick has updated it.
C26_ReadinessUsesUpdatedTemp ==
  [][TickStep =>
       /\ last'.ready =
            (reactorTemp' > (PLASTIC_TYPES[selectedPlastic].optimal_temp - 200) * RT)
       /\ last'.producing = (last'.ready /\ last'.thermalPower > 2000)]_vars

\* C27: the weather process runs on the ticks whose elapsed tick count is a
\* multiple of 6, at every multiplier (the wind then decays by a tenth or a
\* gust is drawn, clouds form, clear or stay); every other tick leaves cloud
\* cover and wind speed unchanged.
C27_WeatherEverySixthTick ==
  [][TickStep =>
       IF time % 6 = 0
         THEN /\ \/ windSpeed' = Max(0, (windSpeed * 9) \div 10)
                 \/ windSpeed' \in GustSpeeds
              /\ \/ cloudCover' = cloudCover
                 \/ \E g \in CloudGains : cloudCover' = Min(100, cloudCover + g)
                 \/ \E l \in CloudLosses : cloudCover' = Max(0, cloudCover - l)
         ELSE /\ cloudCover' = cloudCover
              /\ windSpeed' = windSpeed]_vars

\* a tick between two weather updates left the clouds and the gust of the
\* last update as they were
C27_Witness ==
  /\ last.op = "tick" /\ ~last.weather
  /\ time % 6 = 2
  /\ cloudCover > 0 /\ windSpeed > 10000

\* what the tick drives: clock, tick count, weather, heliostat field,
\* temperatures, ProductionTotals and DailyStats
EngineState ==
  <<time, currentDate, currentHour, currentMinute, cloudCover, windSpeed,
    heliostats, reactorTemp, saltHotTemp, saltColdTemp, pyrolysisActive,
    production, dailyStats>>

C29_DegradationOneWay ==
  [][/\ heliostats'.operational \in {heliostats.operational, heliostats.operational - 1}
     /\ heliostats'.faulty \in {heliostats.faulty, heliostats.faulty + 1}
     /\ heliostats.maintenance = 0
     /\ heliostats'.maintenance = 0]_vars

\* a tick in which a heliostat of a field of ten failed and a cleaning was due
C29_Witness ==
  /\ last.op = "tick" /\ last.faultRoll /\ last.cleanRoll
  /\ heliostats.operational = 9
  /\ heliostats.faulty = HELIOSTAT_COUNT - 9

\* C30: on every producing tick the thermal limit (8000 kg/h per MW) is above
\* the reactor capacity, the rate is the capacity of 500 kg/h, and the plastic
\* processed is 500 * multiplier / 60 kg whatever the thermal power.
C30_ProducingAtCapacity ==
  [][(TickStep /\ last'.producing) =>
       /\ last'.thermalPower * 8 > REACTOR_CAPACITY
       /\ TickProducts(St).rate = REACTOR_CAPACITY
       /\ (production'.totalPlasticProcessed - production.totalPlasticProcessed) * 20
            = REACTOR_CAPACITY * Multiplier]_vars

\* a producing tick under the clouds of the last weather update
C30_Witness ==
  /\ last.op = "tick" /\ last.producing /\ ~last.weather
  /\ cloudCover = 29
  /\ production.totalPlasticProcessed > 0

\* C31: in every reachable state the daily plastic, hydrogen and carbon are at
\* most the lifetime totals of the same product.
C31_DailyWithinTotals ==
  /\ dailyStats.plasticProcessed <= production.totalPlasticProcessed
  /\ dailyStats.hydrogenProduced <= production.hydrogen
  /\ dailyStats.carbonProduced <= production.carbon

\* a producing tick on a later day: the day's figures are above zero and
\* strictly below the totals, which hold the earlier days as well
C31_Witness ==
  /\ last.op = "tick" /\ last.producing
  /\ currentDate > 15
  /\ dailyStats.plasticProcessed > 0
  /\ dailyStats.plasticProcessed < production.totalPlasticProcessed
  /\ dailyStats.hydrogenProduced < production.hydrogen
  /\ dailyStats.carbonProduced < production.carbon

\* C32 as stated: every heliostat count is a whole number in every reachable
\* state, cleaning_needed (kept here in tenths of a heliostat) included when it
\* reaches its 10% cap (stated for the fully operational field, so that what
\* refutes it is neither C9's nor C10's defect).
C32_CountsWhole ==
  heliostats.operational = HELIOSTAT_COUNT =>
    /\ heliostats.maintenance \in Int
    /\ heliostats.faulty \in Int
    /\ heliostats.cleaning_needed % 10 = 0

\* C33 as stated: every tick computes daylight, DNI and thermal power from the
\* location that is selected when the tick fires, also on the first tick
\* after the location was changed while the simulation runs.
C33_TickUsesSelectedLocation ==
  [][TickStep =>
       \E sun \in {calculateSunParameters(currentHour', currentMinute',
                                          DayOfYear(currentDate), selectedLocation,
                                          cloudCover)} :
         /\ last'.isDaytime = sun.isDaytime
         /\ last'.thermalPower =
              calculateThermalPower(sun.dni, heliostats.operational, windSpeed)]_vars

====
